---- MODULE Spec2Model ----
(***************************************************************************)
(* Execution orchestration and self-healing debug engine of the AI coding  *)
(* assistant: the workflow (workflow.py), the multi-language executor      *)
(* (multi_language_executor.py), the remote sandbox client                 *)
(* (daytona_executor.py), the security gate (security_manager.py) and the  *)
(* repair loop (interactive_debugger.py).                                  *)
(*                                                                         *)
(* One task is modelled: a request enters through the workflow or through  *)
(* the front end, awaits the executor, and may enter the repair loop.      *)
(* Each await of the source is one step of the model.  What the language   *)
(* model, the container runtime, the local processes and the remote        *)
(* service answer is chosen nondeterministically.                          *)
(***************************************************************************)
EXTENDS Integers, Sequences, FiniteSets, TLC

(***************************************************************************)
(* Bounds of the model.                                                    *)
(***************************************************************************)
\* largest value set_max_retries is called with
MaxRetriesBound == 2

(***************************************************************************)
(* Program constants.                                                      *)
(***************************************************************************)
DefaultMaxRetries == 3
MaxCodeLength == 10000

(***************************************************************************)
(* Texts.  A source text is a sequence of characters, so that lower() and  *)
(* the substring tests of the gate are computed, not assumed.              *)
(***************************************************************************)
\* str.lower() on the letters the texts of the model are written with
LowerChar(c) ==
    CASE c = "R" -> "r" [] c = "M" -> "m" [] c = "F" -> "f"
      [] c = "D" -> "d" [] c = "E" -> "e" [] c = "L" -> "l"
      [] OTHER -> c

\* a lower() that changes nothing
LowerTextAsIs(t) == t

LowerText(t) == [i \in 1..Len(t) |-> LowerChar(t[i])]

\* Python's `pat in text`
Occurs(pat, text) ==
    \E i \in 1..(Len(text) - Len(pat) + 1) :
        SubSeq(text, i, i + Len(pat) - 1) = pat

SrcEmpty == << >>
SrcOk    == <<"o", "k", "(", ")">>
SrcRm    == <<"r", "m", " ", "-", "r", "f", " ", "/">>
SrcRmUp  == <<"R", "M", " ", "-", "R", "F", " ", "/">>
SrcEval  == <<"e", "v", "a", "l", "(", "x", ")">>
\* secret="1.2.3.4": an assignment of a secret, holding an IP literal
SrcSecret ==
    <<"s", "e", "c", "r", "e", "t", "=", "\"", "1", ".", "2", ".", "3", ".",
      "4", "\"">>
\* eval("1.2.3.4")
SrcEvalIp ==
    <<"e", "v", "a", "l", "(", "\"", "1", ".", "2", ".", "3", ".", "4",
      "\"", ")">>

\* the source texts the language model and the callers hand in
Sources == {SrcOk, SrcRm, SrcRmUp, SrcEval}

(***************************************************************************)
(* Language ids and execution modes, with str.lower().                     *)
(***************************************************************************)
LanguageIds == {"python", "PYTHON", "bash", "c", "java", "cobol", "COBOL"}

LowerLang(l) ==
    CASE l = "PYTHON" -> "python"
      [] l = "COBOL" -> "cobol"
      [] OTHER -> l

ModeArgs == {"auto", "docker", "local", "daytona", "DOCKER", "sandbox"}

LowerMode(m) == IF m = "DOCKER" THEN "docker" ELSE m

\* the keys of MultiLanguageExecutor.SUPPORTED_LANGUAGES
SUPPORTED_LANGUAGES ==
    {"python", "javascript", "java", "go", "rust", "bash", "c", "cpp"}

\* config['use_docker'] of a registry entry
ConfigUseDocker(language) == TRUE

(***************************************************************************)
(* Security gate (SecurityManager.sanitize_code).                          *)
(***************************************************************************)
\* lines 19-23
BLACKLISTED_COMMANDS ==
    { <<"r", "m", " ", "-", "r", "f">>,
      <<"f", "o", "r", "m", "a", "t">>,
      <<"d", "d">>,
      <<"m", "k", "f", "s">>,
      <<"s", "h", "u", "t", "d", "o", "w", "n">>,
      <<"r", "e", "b", "o", "o", "t">>,
      <<"h", "a", "l", "t">>,
      <<"d", "e", "l", " ", "/", "s">>,
      <<"r", "m", "d", "i", "r", " ", "/", "s">>,
      <<"f", "o", "r", "m", "a", "t", " ", "c", ":">> }

\* lines 26-30, in the order of the list; tested with `imp in code`,
\* case-sensitive
BLACKLISTED_IMPORTS ==
    << <<"o", "s", ".", "s", "y", "s", "t", "e", "m">>,
      <<"s", "u", "b", "p", "r", "o", "c", "e", "s", "s", ".", "r", "u", "n">>,
      <<"e", "v", "a", "l">>,
      <<"e", "x", "e", "c">>,
      <<"_", "_", "i", "m", "p", "o", "r", "t", "_", "_">>,
      <<"c", "o", "m", "p", "i", "l", "e">>,
      <<"p", "i", "c", "k", "l", "e", ".", "l", "o", "a", "d", "s">>,
      <<"m", "a", "r", "s", "h", "a", "l", ".", "l", "o", "a", "d", "s">> >>

\* ast.parse(code): which of the model's texts are Python, and what a walk
\* of their tree finds
PySyntaxError(code) == code \in {SrcRm, SrcRmUp}
PyDangerousCalls(code) ==
    IF code \in {SrcEval, SrcEvalIp} THEN {"eval"} ELSE {}

_check_python_code(code) ==
    { [kind |-> "import", what |-> imp] :
          imp \in {BLACKLISTED_IMPORTS[k] :
                      k \in {j \in DOMAIN BLACKLISTED_IMPORTS :
                                 Occurs(BLACKLISTED_IMPORTS[j], code)}} }
    \cup (IF PySyntaxError(code)
          THEN {[kind |-> "syntax", what |-> << >>]}
          ELSE { [kind |-> "call", what |-> << >>] :
                     f \in PyDangerousCalls(code) })

\* r'rm\s+-rf\s+/' is the only pattern a text of the model can match
_check_bash_code(code) ==
    IF Occurs(<<"r", "m", " ", "-", "r", "f", " ", "/">>, code)
    THEN {[kind |-> "bash", what |-> <<"r", "m">>]}
    ELSE {}

\* no text of the model defines a function
_detect_infinite_recursion(code) == FALSE

Issues(code, language) ==
    (IF Len(code) > MaxCodeLength
     THEN {[kind |-> "length", what |-> << >>]} ELSE {})
    \cup (IF LowerLang(language) = "python" THEN _check_python_code(code)
          ELSE IF LowerLang(language) = "bash" THEN _check_bash_code(code)
          ELSE {})
    \cup { [kind |-> "command", what |-> cmd] :
              cmd \in {c \in BLACKLISTED_COMMANDS :
                          Occurs(LowerText(c), LowerText(code))} }
    \cup (IF _detect_infinite_recursion(code)
          THEN {[kind |-> "recursion", what |-> << >>]} ELSE {})

\* str.replace(old, new): every occurrence, leftmost first, not overlapping
RECURSIVE Replace(_, _, _)
Replace(text, old, new) ==
    IF Len(text) < Len(old) THEN text
    ELSE IF SubSeq(text, 1, Len(old)) = old
         THEN new \o Replace(SubSeq(text, Len(old) + 1, Len(text)), old, new)
         ELSE <<Head(text)>> \o Replace(Tail(text), old, new)

\* f"# REMOVED: {imp}"
Removed(imp) ==
    <<"#", " ", "R", "E", "M", "O", "V", "E", "D", ":", " ">> \o imp

\* the loop of _remove_dangerous_code from the k-th entry of the list on
RECURSIVE RemoveImports(_, _)
RemoveImports(sanitized, k) ==
    IF k > Len(BLACKLISTED_IMPORTS) THEN sanitized
    ELSE RemoveImports(Replace(sanitized, BLACKLISTED_IMPORTS[k],
                               Removed(BLACKLISTED_IMPORTS[k])), k + 1)

\* lines 236-253
_remove_dangerous_code(code, language) == RemoveImports(code, 1)

Digit(c) == c \in {"0", "1", "2", "3", "4", "5", "6", "7", "8", "9"}
Space(c) == c \in {" ", "\t", "\n"}
Quote(c) == c \in {"'", "\""}

\* re.search(kw + r'\s*=\s*[\'"][^\'"]+[\'"]', code, re.IGNORECASE)
SensitiveAssign(kw, code) ==
    LET t == LowerText(code)
        n == Len(t)
    IN  \E i \in 1..n :
          /\ i + Len(kw) - 1 <= n
          /\ SubSeq(t, i, i + Len(kw) - 1) = kw
          /\ \E e \in (i + Len(kw))..n :
                /\ \A j \in (i + Len(kw))..(e - 1) : Space(t[j])
                /\ t[e] = "="
                /\ \E q1 \in (e + 1)..n :
                      /\ \A j \in (e + 1)..(q1 - 1) : Space(t[j])
                      /\ Quote(t[q1])
                      /\ \E q2 \in (q1 + 2)..n :
                            /\ \A j \in (q1 + 1)..(q2 - 1) : ~Quote(t[j])
                            /\ Quote(t[q2])

\* \d{1,3} at position i of t, k digits long
DigitsAt(t, i, k) ==
    /\ i + k - 1 <= Len(t)
    /\ \A j \in i..(i + k - 1) : Digit(t[j])

DotAt(t, i) == i <= Len(t) /\ t[i] = "."

\* re.search(r'\d{1,3}\.\d{1,3}\.\d{1,3}\.\d{1,3}', code)
HardcodedIp(code) ==
    \E i \in 1..Len(code) : \E a \in 1..3 :
      /\ DigitsAt(code, i, a) /\ DotAt(code, i + a)
      /\ \E b \in 1..3 :
            /\ DigitsAt(code, i + a + 1, b) /\ DotAt(code, i + a + 1 + b)
            /\ \E c \in 1..3 :
                  /\ DigitsAt(code, i + a + b + 2, c)
                  /\ DotAt(code, i + a + b + 2 + c)
                  /\ \E d \in 1..3 :
                        DigitsAt(code, i + a + b + c + 3, d)

\* the three sensitive patterns of lines 268-272, api[_-]?key spelt out
SensitivePatterns ==
    << {<<"p", "a", "s", "s", "w", "o", "r", "d">>},
       {<<"a", "p", "i", "k", "e", "y">>,
        <<"a", "p", "i", "_", "k", "e", "y">>,
        <<"a", "p", "i", "-", "k", "e", "y">>},
       {<<"s", "e", "c", "r", "e", "t">>} >>

\* the warning a pattern appends when it is found
SensitiveWarning(pattern, code) ==
    IF \E kw \in pattern : SensitiveAssign(kw, code)
    THEN <<"sensitive">> ELSE << >>

\* lines 255-283: one warning per sensitive pattern found, then the one
\* for an IP literal
_get_warnings(code, language) ==
    SensitiveWarning(SensitivePatterns[1], code)
    \o SensitiveWarning(SensitivePatterns[2], code)
    \o SensitiveWarning(SensitivePatterns[3], code)
    \o (IF HardcodedIp(code) THEN <<"ip">> ELSE << >>)

\* a gate whose verdict counts the warnings as well
sanitize_codeCountsWarnings(code, language) ==
    LET issues == Issues(code, language)
        warnings == _get_warnings(code, language)
    IN  [safe |-> issues = {} /\ warnings = << >>,
         issues |-> issues,
         sanitized_code |-> IF issues # {}
                            THEN _remove_dangerous_code(code, language)
                            ELSE code,
         warnings |-> warnings]

\* lines 55-94
sanitize_code(code, language) ==
    LET issues == Issues(code, language)
    IN  [safe |-> issues = {},
         issues |-> issues,
         sanitized_code |-> IF issues # {}
                            THEN _remove_dangerous_code(code, language)
                            ELSE code,
         warnings |-> _get_warnings(code, language)]


(***************************************************************************)
(* State.                                                                  *)
(***************************************************************************)
VARIABLES
    execution_mode,  \* self.execution_mode
    use_docker,      \* self.use_docker, the probe's answer at construction
    daytona,         \* self.daytona_executor and its api_key, workspace_id
    max_retries,     \* InteractiveDebugger.max_retries
    pc,              \* where the task is suspended
    request,         \* the request being served
    call,            \* arguments of the executor call being awaited
    caller,          \* who awaits the executor
    ret,             \* what the executor call returned or raised
    fx,              \* what the executor call touched
    live,            \* what exists now of what executor calls created
    session,         \* locals of debug_and_fix
    dbg_caller,      \* who awaits debug_and_fix
    dbg_out,         \* what debug_and_fix returned
    first_error,     \* result['error'] that _handle_execute_code keeps
    response,        \* what the request's caller got
    tasks,           \* calls in flight at the same time on one executor
    conversation_history,  \* AICodingWorkflow.conversation_history
    arrivals         \* how many handle_request calls were made so far

vars == <<execution_mode, use_docker, daytona, max_retries,
          pc, request, call, caller, ret, fx, live, session, dbg_caller,
          dbg_out, first_error, response, tasks, conversation_history,
          arrivals>>

\* the workflow's record of the requests it answered
history == <<conversation_history, arrivals>>

config == <<execution_mode, use_docker, max_retries>>

Err(kind, detail) == [kind |-> kind, detail |-> detail]

None == [kind |-> "none"]

Result(value) == [kind |-> "result", value |-> value]

Raise(type, detail) == [kind |-> "raise", exc |-> Err(type, detail)]

\* what an execute call touched: the backend it entered, the temporary
\* directory, container, processes and remote requests it made, and what the
\* remote service answered.  Nothing yet:
NoFx == [backend |-> "none", tmpdir |-> FALSE, docker |-> FALSE,
         compile |-> FALSE, compile_exit |-> -1, run |-> FALSE,
         create_req |-> FALSE, recreate |-> FALSE, exec_req |-> FALSE,
         reply |-> [t |-> "none"], container_exit |-> -1,
         run_outcome |-> [t |-> "none"]]

\* what exists at this moment: the temporary directory, the child process
\* ("compile", "run", or "killed" once kill() was called on it), the
\* container, and the remote request that is awaited.  Nothing:
NoLive == [tmpdir |-> FALSE, proc |-> "none", container |-> FALSE,
           request |-> "none"]

\* no repair request is under way
NoAsk == [code |-> SrcEmpty, error |-> [kind |-> "none", detail |-> ""]]

NoSession ==
    [active |-> FALSE, language |-> "python", original_code |-> SrcEmpty,
     current_code |-> SrcEmpty,
     current_error |-> Err("none", ""), fixed_code |-> SrcEmpty,
     attempt |-> 0, bound |-> 0, execs |-> 0, repairs |-> 0,
     asked |-> NoAsk]

\* the calls that can be in flight at the same time
Tasks == {1, 2}

\* a call that has not been made
NoTask ==
    [pc |-> "idle", language |-> "python", target |-> 0, created |-> FALSE,
     overlap |-> FALSE, result |-> None]

NoTasks == [t \in Tasks |-> NoTask]

\* what the environment can answer
Outputs == {"", "out"}
ExitCodes == {0, 1}

(***************************************************************************)
(* MultiLanguageExecutor.__init__ and DaytonaExecutor.__init__.            *)
(***************************************************************************)
NewDaytona(mode, key) ==
    IF mode = "daytona"
    THEN [present |-> TRUE, api_key |-> key, workspace_id |-> 0,
          create_sent |-> FALSE]
    ELSE [present |-> FALSE, api_key |-> FALSE, workspace_id |-> 0,
          create_sent |-> FALSE]

Init ==
    /\ \E mode_arg \in ModeArgs : execution_mode = LowerMode(mode_arg)
    /\ use_docker \in BOOLEAN
    /\ \E key \in BOOLEAN :
           /\ (execution_mode # "daytona" => key = FALSE)
           /\ daytona = NewDaytona(execution_mode, key)
    /\ max_retries = DefaultMaxRetries
    /\ pc = "idle"
    /\ request = None
    /\ call = None
    /\ caller = "none"
    /\ ret = None
    /\ fx = NoFx
    /\ live = NoLive
    /\ session = NoSession
    /\ dbg_caller = "none"
    /\ dbg_out = None
    /\ first_error = Err("none", "")
    /\ response = None
    /\ tasks = NoTasks
    /\ conversation_history = << >>
    /\ arrivals = 0


(***************************************************************************)
(* MultiLanguageExecutor.execute: the backend it selects.                  *)
(***************************************************************************)
\* mutant: container mode falls back to local processes when the runtime
\* is not reachable
SelectBackendFallsBack(language) ==
    IF execution_mode = "daytona" THEN "daytona"
    ELSE IF execution_mode = "docker"
    THEN (IF ~use_docker THEN "local" ELSE "docker")
    ELSE IF execution_mode = "local" THEN "local"
    ELSE IF use_docker THEN "docker"
    ELSE "local"

\* mutant: auto mode ignores the availability flag
SelectBackendAutoLocal(language) ==
    IF execution_mode = "daytona" THEN "daytona"
    ELSE IF execution_mode = "docker"
    THEN (IF ~use_docker THEN "docker_unavailable" ELSE "docker")
    ELSE "local"

\* mutant: auto mode takes the container runtime to be there now, whatever
\* the probe found
SelectBackendAutoDocker(language) ==
    IF execution_mode = "daytona"
    THEN (IF ~daytona.present THEN "daytona_unconfigured" ELSE "daytona")
    ELSE IF execution_mode = "docker"
    THEN (IF ~use_docker THEN "docker_unavailable" ELSE "docker")
    ELSE IF execution_mode = "local"
    THEN "local"
    ELSE "docker"

\* mutant: a mode that is no known name is taken for local mode
SelectBackendUnknownLocal(language) ==
    IF execution_mode = "daytona"
    THEN (IF ~daytona.present THEN "daytona_unconfigured" ELSE "daytona")
    ELSE IF execution_mode = "docker"
    THEN (IF ~use_docker THEN "docker_unavailable" ELSE "docker")
    ELSE IF execution_mode = "local" \/ execution_mode # "auto"
    THEN "local"
    ELSE IF ConfigUseDocker(language) /\ ~use_docker THEN "local"
    ELSE IF use_docker /\ ConfigUseDocker(language) THEN "docker"
    ELSE "local"

\* lines 133-165
SelectBackend(language) ==
    IF execution_mode = "daytona"
    THEN (IF ~daytona.present THEN "daytona_unconfigured" ELSE "daytona")
    ELSE IF execution_mode = "docker"
    THEN (IF ~use_docker THEN "docker_unavailable" ELSE "docker")
    ELSE IF execution_mode = "local"
    THEN "local"
    ELSE IF ConfigUseDocker(language) /\ ~use_docker THEN "local"
    ELSE IF use_docker /\ ConfigUseDocker(language) THEN "docker"
    ELSE "local"

\* the call being awaited is execute(language, code, stdin)
InExecute == pc = "execute" /\ call.method = "execute"

Language == LowerLang(call.language)

\* mutant: the registry test is skipped
SupportedAlways == TRUE

\* line 123
Supported == Language \in SUPPORTED_LANGUAGES

\* execute is at its first line: nothing of this call exists yet
AtEntry == InExecute /\ live = NoLive

\* mutant: the temporary directory is left behind
CleanUpSkipped(l) == l

\* leaving `with tempfile.TemporaryDirectory() as tmpdir` (lines 176, 234)
CleanUp(l) == [l EXCEPT !.tmpdir = FALSE]

\* execute returns or raises r
Return(r, touched, l) ==
    /\ ret' = r
    /\ fx' = touched
    /\ live' = l
    /\ pc' = "ret"
    /\ UNCHANGED <<config, tasks, history, first_error, request, call, caller,
                   session, dbg_caller, dbg_out, response>>

\* execute is suspended at an await
Await(touched, l) ==
    /\ fx' = touched
    /\ live' = l
    /\ UNCHANGED <<config, tasks, history, first_error, pc, ret, request, call,
                   caller, session, dbg_caller, dbg_out, response>>

\* lines 123-128
ExecUnsupported ==
    /\ AtEntry
    /\ ~Supported
    /\ Return(Result([success |-> FALSE,
                      error |-> Err("unsupported", Language),
                      exit_code |-> -1]), NoFx, live)
    /\ UNCHANGED daytona

\* lines 134-139 and 145-150
ExecConfigError ==
    /\ AtEntry
    /\ Supported
    /\ SelectBackend(Language) \in
           {"daytona_unconfigured", "docker_unavailable"}
    /\ Return(Result([success |-> FALSE,
                      error |-> Err("config", SelectBackend(Language)),
                      exit_code |-> -1]), NoFx, live)
    /\ UNCHANGED daytona

(***************************************************************************)
(* Remote backend: DaytonaExecutor.execute_code and create_workspace.      *)
(***************************************************************************)
NoErrorValue == [type |-> "str", text |-> ""]

Body(keys, success, output, exit_code, error) ==
    [keys |-> keys, success |-> success, output |-> output,
     exit_code |-> exit_code, error |-> error]

\* JSON bodies the remote service can answer the execute request with
Bodies ==
    { Body({"success", "output", "exit_code"}, TRUE, "out", 0, NoErrorValue),
      Body({"success", "output", "exit_code"}, FALSE, "", 1, NoErrorValue),
      Body({"success", "output", "error", "exit_code"}, TRUE, "out", 0,
           NoErrorValue),
      Body({"error"}, FALSE, "", 0, [type |-> "dict", text |-> "quota"]),
      Body({}, FALSE, "", 0, NoErrorValue) }

\* how the execute request ends: a transport error, the 120 s timeout, a
\* body that is no JSON, or a status with a JSON body
Replies ==
    {[t |-> "client_error"], [t |-> "timeout"], [t |-> "malformed"]}
    \cup {[t |-> "http", status |-> 200, body |-> b] : b \in Bodies}
    \cup {[t |-> "http", status |-> 500, body |-> Body({}, FALSE, "", 0,
                                                      NoErrorValue)]}

RemoteFailure(error) == [success |-> FALSE, error |-> error, output |-> ""]

\* lines 114-164: the result execute_code makes of the service's reply
RemoteResult(reply) ==
    IF reply.t = "client_error" THEN RemoteFailure(Err("network", ""))
    ELSE IF reply.t = "timeout" THEN RemoteFailure(Err("timeout", "120"))
    ELSE IF reply.t = "malformed" THEN RemoteFailure(Err("exception", "json"))
    ELSE IF "error" \in reply.body.keys
    THEN (IF reply.body.error.type = "dict"
          THEN RemoteFailure(Err("api", reply.body.error.text))
          ELSE RemoteFailure(Err("exception", "AttributeError")))
    ELSE IF reply.status = 200
    THEN [success |-> IF "success" \in reply.body.keys
                      THEN reply.body.success ELSE TRUE,
          output |-> IF "output" \in reply.body.keys
                     THEN reply.body.output ELSE "",
          error |-> Err("stderr", ""),
          exit_code |-> IF "exit_code" \in reply.body.keys
                        THEN reply.body.exit_code ELSE 0]
    ELSE RemoteFailure(Err("http", "status"))

\* multi_language_executor.py line 141: result['language'] = language
WithLanguage(result, language) ==
    [k \in DOMAIN result \cup {"language"} |->
        IF k = "language" THEN language ELSE result[k]]

\* lines 96-97: no key, execute_code raises
ExecDaytonaNoKey ==
    /\ AtEntry
    /\ Supported
    /\ SelectBackend(Language) = "daytona"
    /\ ~daytona.api_key
    /\ Return(Raise("ValueError", "api_key"),
              [NoFx EXCEPT !.backend = "daytona"], live)
    /\ UNCHANGED daytona

\* mutant: a workspace is created for every call
NeedsWorkspaceAlways(workspace_id) == TRUE

\* line 102: `if not target_workspace`
NeedsWorkspace(workspace_id) == workspace_id = 0

\* lines 102-104 with create_workspace lines 50-61: no workspace id is held,
\* the create request is sent
DaytonaCreateSent ==
    /\ AtEntry
    /\ Supported
    /\ SelectBackend(Language) = "daytona"
    /\ daytona.api_key
    /\ NeedsWorkspace(daytona.workspace_id)
    /\ daytona' = [daytona EXCEPT !.create_sent = TRUE]
    /\ Await([NoFx EXCEPT !.backend = "daytona", !.create_req = TRUE,
                          !.recreate = daytona.create_sent],
             [live EXCEPT !.request = "create"])

\* create_workspace lines 59-77: the request fails (status other than 201,
\* network error) and create_workspace raises
ExecDaytonaCreateFails ==
    /\ InExecute
    /\ live.request = "create"
    /\ \E why \in {"status", "network"} :
           Return(Raise("Exception", why),
                  [fx EXCEPT !.reply = [t |-> "create_failed"]],
                  [live EXCEPT !.request = "none"])
    /\ UNCHANGED daytona

\* create_workspace lines 59-60 and 74-76: the request is sent with the
\* session's default timeout; when it expires the TimeoutError is re-raised
ExecDaytonaCreateTimeout ==
    /\ InExecute
    /\ live.request = "create"
    /\ Return(Raise("TimeoutError", "create"),
              [fx EXCEPT !.reply = [t |-> "create_failed"]],
              [live EXCEPT !.request = "none"])
    /\ UNCHANGED daytona

\* what create_workspace can return: the new workspace's id (1), or None (0)
\* when the 201 body has no "id"
CreatedIds == {0, 1}

\* create_workspace lines 64-67 and execute_code lines 105-113: the answer is
\* 201, the id is kept, the execute request is sent
DaytonaCreated ==
    /\ InExecute
    /\ live.request = "create"
    /\ \E id \in CreatedIds :
           daytona' = [daytona EXCEPT !.workspace_id = id]
    /\ Await([fx EXCEPT !.exec_req = TRUE],
             [live EXCEPT !.request = "execute"])

\* lines 100-113: a workspace id is held, the execute request is sent to it
DaytonaExecSent ==
    /\ AtEntry
    /\ Supported
    /\ SelectBackend(Language) = "daytona"
    /\ daytona.api_key
    /\ ~NeedsWorkspace(daytona.workspace_id)
    /\ Await([NoFx EXCEPT !.backend = "daytona", !.exec_req = TRUE],
             [live EXCEPT !.request = "execute"])
    /\ UNCHANGED daytona

\* lines 114-150 and 157-164: the execute request is answered, or fails
ExecDaytonaRun ==
    /\ InExecute
    /\ live.request = "execute"
    /\ \E reply \in Replies \ {[t |-> "timeout"]} :
           Return(Result(WithLanguage(RemoteResult(reply), Language)),
                  [fx EXCEPT !.reply = reply],
                  [live EXCEPT !.request = "none"])
    /\ UNCHANGED daytona

\* lines 112 and 151-156: ClientTimeout(total=120) expires
ExecDaytonaTimeout ==
    /\ InExecute
    /\ live.request = "execute"
    /\ Return(Result(WithLanguage(RemoteResult([t |-> "timeout"]),
                                  Language)),
              [fx EXCEPT !.reply = [t |-> "timeout"]],
              [live EXCEPT !.request = "none"])
    /\ UNCHANGED daytona


(***************************************************************************)
(* Container backend: _execute_in_docker.                                  *)
(***************************************************************************)
\* exit code of the `timeout` wrapper of line 204 when the time is over
TimeoutExit == 124

\* what client.containers.run ends with: the logs of a run that exited 0,
\* a ContainerError for exit code c, or an image/API error
DockerOutcomes ==
    {[t |-> "exit0", output |-> o] : o \in Outputs}
    \cup {[t |-> "exit", code |-> c] : c \in {1, TimeoutExit}}
    \cup {[t |-> "api"]}

\* the exit code the container ended with; -1 when it was never started
ContainerExit(outcome) ==
    IF outcome.t = "exit0" THEN 0
    ELSE IF outcome.t = "exit" THEN outcome.code
    ELSE -1

\* lines 212-230
DockerResult(outcome, language) ==
    IF outcome.t = "exit0"
    THEN [success |-> TRUE, output |-> outcome.output,
          error |-> Err("stderr", ""), exit_code |-> 0, language |-> language]
    ELSE [success |-> FALSE, output |-> "",
          error |-> IF outcome.t = "exit"
                    THEN Err("container", "exit")
                    ELSE Err("container", "api"),
          exit_code |-> -1, language |-> language]

\* line 174: docker.from_env() when the runtime is not reachable now
ExecDockerClientFails ==
    /\ AtEntry
    /\ Supported
    /\ SelectBackend(Language) = "docker"
    /\ Return(Raise("DockerException", "from_env"),
              [NoFx EXCEPT !.backend = "docker"], live)
    /\ UNCHANGED daytona

\* lines 174-210: the files are written and containers.run is handed to
\* the thread pool
DockerRunStarts ==
    /\ AtEntry
    /\ Supported
    /\ SelectBackend(Language) = "docker"
    /\ Await([NoFx EXCEPT !.backend = "docker", !.tmpdir = TRUE,
                          !.docker = TRUE],
             [live EXCEPT !.tmpdir = TRUE, !.container = TRUE])
    /\ UNCHANGED daytona

\* lines 201-230: containers.run is over; with 'remove': True the container
\* is gone when it returns or raises
ExecInDocker ==
    /\ InExecute
    /\ live.container
    /\ \E outcome \in DockerOutcomes \ {[t |-> "exit", code |-> TimeoutExit]} :
           Return(Result(DockerResult(outcome, Language)),
                  [fx EXCEPT !.container_exit = ContainerExit(outcome)],
                  CleanUp([live EXCEPT !.container = FALSE]))
    /\ UNCHANGED daytona

\* line 204: the `timeout` wrapper inside the container ends the command
ExecDockerTimeout ==
    /\ InExecute
    /\ live.container
    /\ Return(Result(DockerResult([t |-> "exit", code |-> TimeoutExit],
                                  Language)),
              [fx EXCEPT !.container_exit = TimeoutExit],
              CleanUp([live EXCEPT !.container = FALSE]))
    /\ UNCHANGED daytona

(***************************************************************************)
(* Local backend: _execute_locally.                                        *)
(***************************************************************************)
\* mutant: every registered language but c is run as it is
LocalRunnerRunsAll(language) ==
    IF language = "c" THEN "compile" ELSE "run"

\* lines 248-281: the languages with a local runner; "c" is built first
LocalRunner(language) ==
    IF language \in {"python", "javascript", "bash"} THEN "run"
    ELSE IF language = "c" THEN "compile"
    ELSE "unsupported"

\* exit codes of a compiler that found errors
CompileErrorExits == {1, 4}

\* U+FFFD, which errors='replace' puts for bytes that cannot be decoded
ReplacementChar == 65533

\* bytes.decode('utf-8', errors='replace') on ASCII bytes, two-byte
\* sequences and bytes that start no sequence; a text is the sequence of
\* its code points
RECURSIVE Decode(_)
Decode(bytes) ==
    IF bytes = << >> THEN << >>
    ELSE IF bytes[1] < 128 THEN <<bytes[1]>> \o Decode(Tail(bytes))
    ELSE IF /\ bytes[1] \in 194..223
            /\ Len(bytes) >= 2
            /\ bytes[2] \in 128..191
    THEN <<(bytes[1] - 192) * 64 + (bytes[2] - 128)>>
             \o Decode(SubSeq(bytes, 3, Len(bytes)))
    ELSE <<ReplacementChar>> \o Decode(Tail(bytes))

\* what the pipes of the run step can carry: nothing, "o\u00e9" in UTF-8,
\* the byte 0xFF; nothing, "err"
StdoutBytes == {<< >>, <<111, 195, 169>>, <<255>>}
StderrBytes == {<< >>, <<101, 114, 114>>}

\* how the run step ends: it cannot be started, it exits with (code, stdout,
\* stderr) before the timeout, or the timeout expires
RunOutcomes ==
    {[t |-> "spawn_error"], [t |-> "timeout"]}
    \cup {[t |-> "exit", code |-> c, stdout |-> o, stderr |-> e] :
              c \in ExitCodes, o \in StdoutBytes, e \in StderrBytes}

\* mutant: a run that ended is a success whatever its exit code
RunResultIgnoresExit(outcome, language) ==
    IF outcome.t = "spawn_error"
    THEN [success |-> FALSE, error |-> Err("exception", "spawn"),
          exit_code |-> -1, language |-> language]
    ELSE IF outcome.t = "timeout"
    THEN [success |-> FALSE, error |-> Err("timeout", "run"),
          exit_code |-> -1, language |-> language]
    ELSE [success |-> TRUE, output |-> Decode(outcome.stdout),
          error |-> Err("stderr", Decode(outcome.stderr)),
          exit_code |-> outcome.code, language |-> language]

\* mutant: an expired timeout is reported like any other exception
RunResultTimeoutAsException(outcome, language) ==
    IF outcome.t \in {"spawn_error", "timeout"}
    THEN [success |-> FALSE, error |-> Err("exception", "spawn"),
          exit_code |-> -1, language |-> language]
    ELSE [success |-> outcome.code = 0, output |-> Decode(outcome.stdout),
          error |-> Err("stderr", Decode(outcome.stderr)),
          exit_code |-> outcome.code, language |-> language]

\* lines 283-324
RunResult(outcome, language) ==
    IF outcome.t = "spawn_error"
    THEN [success |-> FALSE, error |-> Err("exception", "spawn"),
          exit_code |-> -1, language |-> language]
    ELSE IF outcome.t = "timeout"
    THEN [success |-> FALSE, error |-> Err("timeout", "run"),
          exit_code |-> -1, language |-> language]
    ELSE [success |-> outcome.code = 0, output |-> Decode(outcome.stdout),
          error |-> Err("stderr", Decode(outcome.stderr)),
          exit_code |-> outcome.code, language |-> language]

\* mutant: the compiler's exit code is not looked at
CompileFailedNever(returncode) == FALSE

\* line 266: compile_process.returncode != 0
CompileFailed(returncode) == returncode # 0

\* the temporary directory and the two files of lines 234-244 exist
InTmpdir(touched, l) ==
    <<[touched EXCEPT !.backend = "local", !.tmpdir = TRUE],
      [l EXCEPT !.tmpdir = TRUE]>>

\* lines 234-244 and 275-281
ExecLocalUnsupported ==
    /\ AtEntry
    /\ Supported
    /\ SelectBackend(Language) = "local"
    /\ LocalRunner(Language) = "unsupported"
    /\ Return(Result([success |-> FALSE,
                      error |-> Err("local_unsupported", Language),
                      exit_code |-> -1, language |-> Language]),
              InTmpdir(NoFx, live)[1], CleanUp(InTmpdir(NoFx, live)[2]))
    /\ UNCHANGED daytona

\* lines 257-265: gcc is started and awaited
LocalCompileStarts ==
    /\ AtEntry
    /\ Supported
    /\ SelectBackend(Language) = "local"
    /\ LocalRunner(Language) = "compile"
    /\ Await([InTmpdir(NoFx, live)[1] EXCEPT !.compile = TRUE],
             [InTmpdir(NoFx, live)[2] EXCEPT !.proc = "compile"])
    /\ UNCHANGED daytona

\* lines 257-272 and 317-324: gcc cannot be started, or exits non-zero
ExecLocalCompileFails ==
    /\ InExecute
    /\ \/ /\ AtEntry
          /\ Supported
          /\ SelectBackend(Language) = "local"
          /\ LocalRunner(Language) = "compile"
          /\ Return(Result([success |-> FALSE,
                            error |-> Err("exception", "spawn"),
                            exit_code |-> -1, language |-> Language]),
                    InTmpdir(NoFx, live)[1],
                    CleanUp(InTmpdir(NoFx, live)[2]))
       \/ /\ live.proc = "compile"
          /\ \E returncode \in CompileErrorExits :
                 /\ CompileFailed(returncode)
                 /\ Return(Result([success |-> FALSE,
                                   error |-> Err("compile", "diagnostics"),
                                   exit_code |-> returncode,
                                   language |-> Language]),
                           [fx EXCEPT !.compile_exit = returncode],
                           CleanUp([live EXCEPT !.proc = "none"]))
    /\ UNCHANGED daytona

\* lines 265-274 and 283-289: gcc is over and its exit code lets the run
\* step start
LocalCompileDone ==
    /\ InExecute
    /\ live.proc = "compile"
    /\ \E returncode \in {0} \cup CompileErrorExits :
           /\ ~CompileFailed(returncode)
           /\ Await([fx EXCEPT !.compile_exit = returncode, !.run = TRUE],
                    [live EXCEPT !.proc = "run"])
    /\ UNCHANGED daytona

\* lines 248-256 and 283-289: the interpreter is started
LocalRunStarts ==
    /\ AtEntry
    /\ Supported
    /\ SelectBackend(Language) = "local"
    /\ LocalRunner(Language) = "run"
    /\ Await([InTmpdir(NoFx, live)[1] EXCEPT !.run = TRUE],
             [InTmpdir(NoFx, live)[2] EXCEPT !.proc = "run"])
    /\ UNCHANGED daytona

\* lines 283-289 and 317-324: the interpreter cannot be started
ExecLocalSpawnFails ==
    /\ AtEntry
    /\ Supported
    /\ SelectBackend(Language) = "local"
    /\ LocalRunner(Language) = "run"
    /\ Return(Result(RunResult([t |-> "spawn_error"], Language)),
              InTmpdir(NoFx, live)[1], CleanUp(InTmpdir(NoFx, live)[2]))
    /\ UNCHANGED daytona

\* lines 291-295 and 306-315: the process is over before the timeout
ExecLocalRun ==
    /\ InExecute
    /\ live.proc = "run"
    /\ \E outcome \in {o \in RunOutcomes : o.t = "exit"} :
           Return(Result(RunResult(outcome, Language)),
                  [fx EXCEPT !.run_outcome = outcome],
                  CleanUp([live EXCEPT !.proc = "none"]))
    /\ UNCHANGED daytona

\* lines 291-297: wait_for's timeout expires, process.kill() is called
ExecLocalTimeout ==
    /\ InExecute
    /\ live.proc = "run"
    /\ Await(fx, [live EXCEPT !.proc = "killed"])
    /\ UNCHANGED daytona

\* lines 298-304: process.wait() returns, the killed process is reaped
ExecLocalReaped ==
    /\ InExecute
    /\ live.proc = "killed"
    /\ Return(Result(RunResult([t |-> "timeout"], Language)), fx,
              CleanUp([live EXCEPT !.proc = "none"]))
    /\ UNCHANGED daytona

\* interactive_debugger.py line 108 on the executor the workflow wires in:
\* MultiLanguageExecutor has no execute_python
ExecutePythonMissing ==
    /\ pc = "execute"
    /\ call.method = "execute_python"
    /\ Return(Raise("AttributeError", "execute_python"), NoFx, live)
    /\ UNCHANGED daytona

\* the steps of execute that the program takes by itself: entering a
\* backend, returning at once, and its timers
ExecuteStep ==
    \/ ExecUnsupported
    \/ ExecConfigError
    \/ ExecDaytonaNoKey
    \/ DaytonaCreateSent
    \/ DaytonaExecSent
    \/ ExecDaytonaCreateTimeout
    \/ ExecDaytonaTimeout
    \/ DockerRunStarts
    \/ ExecDockerTimeout
    \/ ExecLocalUnsupported
    \/ LocalCompileStarts
    \/ LocalRunStarts
    \/ ExecLocalTimeout
    \/ ExecLocalReaped
    \/ ExecutePythonMissing

\* the steps of execute that wait for a process, the container runtime or
\* the remote service to answer
ExecuteAnswered ==
    \/ ExecDaytonaCreateFails
    \/ DaytonaCreated
    \/ ExecDaytonaRun
    \/ ExecDockerClientFails
    \/ ExecInDocker
    \/ ExecLocalCompileFails
    \/ LocalCompileDone
    \/ ExecLocalSpawnFails
    \/ ExecLocalRun

Execute == ExecuteStep \/ ExecuteAnswered


(***************************************************************************)
(* Callers of the executor.                                                *)
(***************************************************************************)
Stdins == {"", "in"}

\* what the workflow's requests carry: the language of the intent and the
\* text the code producer or the caller's context supplies
WorkflowLanguages == {"python", "bash", "c", "java", "cobol"}
WorkflowSources == {SrcOk, SrcRm}
\* the language of the intent and what generate_code returns for it in
\* _handle_execute_code
Generated ==
    (WorkflowLanguages \X WorkflowSources)
    \cup {<<"python", SrcEval>>, <<"python", SrcSecret>>}
\* the texts a verdict is asked for
GateSources == Sources \cup {SrcSecret, SrcEvalIp}

Response(value) == [kind |-> "response", value |-> value]

ExecuteCall(method, language, code, stdin) ==
    [method |-> method, language |-> language, code |-> code, stdin |-> stdin]

\* the executor's answer has been taken by its caller
Consumed ==
    /\ ret' = None
    /\ fx' = NoFx
    /\ call' = None
    /\ caller' = "none"

\* streamlit_app.py lines 438-447: execute() called with the editor's text
ApiExecute ==
    /\ pc = "idle"
    /\ \E language \in LanguageIds, code \in Sources, stdin \in Stdins :
           /\ request' = [action |-> "execute", language |-> language,
                          code |-> code]
           /\ call' = ExecuteCall("execute", language, code, stdin)
    /\ caller' = "api"
    /\ pc' = "execute"
    /\ UNCHANGED <<config, tasks, history, first_error, daytona, live, ret, fx,
                   session, dbg_caller, dbg_out, response>>

\* execute() is back at its caller, with a result or an exception
ApiReturn ==
    /\ pc = "ret"
    /\ caller = "api"
    /\ response' = ret
    /\ pc' = "done"
    /\ UNCHANGED <<config, tasks, history, first_error, daytona, live, request,
                   call, caller, ret, fx, session, dbg_caller, dbg_out>>

\* security_manager.py lines 55-94: sanitize_code() asked for a verdict
SanitizeCode ==
    /\ pc = "idle"
    /\ \E language \in LanguageIds, code \in GateSources :
           /\ request' = [action |-> "sanitize_code", language |-> language,
                          code |-> code]
           /\ response' = Response(sanitize_code(code, language))
    /\ pc' = "done"
    /\ UNCHANGED <<config, tasks, history, first_error, daytona, live, call,
                   caller, ret, fx, session, dbg_caller, dbg_out>>

\* a gate that lets every verdict through
GatePassesAlways(security_check) == TRUE

\* workflow.py line 200: `if not security_check['safe']` refuses
GatePasses(security_check) == security_check.safe

\* workflow.py lines 192-206: the generated code fails the gate
HandleExecuteCodeRefused ==
    /\ pc = "idle"
    /\ \E language \in WorkflowLanguages, code \in GateSources :
           /\ <<language, code>> \in Generated
           /\ ~GatePasses(sanitize_code(code, language))
           /\ request' = [action |-> "execute_code", language |-> language,
                          code |-> code]
           /\ response' = Response([action |-> "execute_code",
                                    success |-> FALSE,
                                    error |-> Err("security", ""),
                                    code |-> code])
    /\ pc' = "done"
    /\ UNCHANGED <<config, tasks, history, first_error, daytona, live, call,
                   caller, ret, fx, session, dbg_caller, dbg_out>>

\* workflow.py lines 192-213: the generated code passes the gate
HandleExecuteCode ==
    /\ pc = "idle"
    /\ \E language \in WorkflowLanguages, code \in GateSources,
          stdin \in Stdins :
           /\ <<language, code>> \in Generated
           /\ GatePasses(sanitize_code(code, language))
           /\ request' = [action |-> "execute_code", language |-> language,
                          code |-> code]
           /\ call' = ExecuteCall("execute", language, code, stdin)
    /\ caller' = "wf_exec"
    /\ pc' = "execute"
    /\ UNCHANGED <<config, tasks, history, first_error, daytona, live, ret, fx,
                   session, dbg_caller, dbg_out, response>>

\* workflow.py lines 244-251: context holds no code
HandleDebugNoCode ==
    /\ pc = "idle"
    /\ \E language \in WorkflowLanguages :
           request' = [action |-> "debug", language |-> language,
                       code |-> SrcEmpty]
    /\ response' = Response([action |-> "debug", success |-> FALSE,
                             error |-> Err("no_code", "")])
    /\ pc' = "done"
    /\ UNCHANGED <<config, tasks, history, first_error, daytona, live, call,
                   caller, ret, fx, session, dbg_caller, dbg_out>>

\* workflow.py lines 244-257
HandleDebug ==
    /\ pc = "idle"
    /\ \E language \in WorkflowLanguages, code \in WorkflowSources :
           /\ request' = [action |-> "debug", language |-> language,
                          code |-> code]
           /\ call' = ExecuteCall("execute", language, code, "")
    /\ caller' = "wf_debug"
    /\ pc' = "execute"
    /\ UNCHANGED <<config, tasks, history, first_error, daytona, live, ret, fx,
                   session, dbg_caller, dbg_out, response>>

\* the workspace_id argument of delete_workspace: None (0), the id the
\* service hands out (1), the id of some other workspace (2)
DeleteArgs == {0, 1, 2}

\* daytona_executor.py line 180: workspace_id or self.workspace_id
DeleteTarget(workspace_id, stored) ==
    IF workspace_id # 0 THEN workspace_id ELSE stored

\* mutant: every successful deletion makes the executor forget its id
ClearsIdAlways(target_workspace, stored) == TRUE

\* line 194: target_workspace == self.workspace_id
ClearsId(target_workspace, stored) == target_workspace = stored

\* daytona_executor.py lines 166-202: delete_workspace() on the executor's
\* remote backend, between two requests.  Without a key it returns False,
\* without a workspace id True; else the delete request is sent, and only
\* the answer 200 makes it forget the id
DeleteWorkspace ==
    /\ pc = "idle"
    /\ daytona.present
    /\ \E workspace_id \in DeleteArgs :
         LET target_workspace ==
                 DeleteTarget(workspace_id, daytona.workspace_id)
         IN
         /\ request' = [action |-> "delete_workspace",
                        workspace_id |-> workspace_id]
         /\ \/ /\ ~daytona.api_key
               /\ response' = Response([deleted |-> FALSE, sent |-> FALSE])
               /\ UNCHANGED daytona
            \/ /\ daytona.api_key
               /\ target_workspace = 0
               /\ response' = Response([deleted |-> TRUE, sent |-> FALSE])
               /\ UNCHANGED daytona
            \/ /\ daytona.api_key
               /\ target_workspace # 0
               /\ \/ /\ response' =
                          Response([deleted |-> TRUE, sent |-> TRUE])
                     /\ daytona' =
                          IF ClearsId(target_workspace, daytona.workspace_id)
                          THEN [daytona EXCEPT !.workspace_id = 0,
                                               !.create_sent = FALSE]
                          ELSE daytona
                  \/ /\ response' =
                          Response([deleted |-> FALSE, sent |-> TRUE])
                     /\ UNCHANGED daytona
    /\ pc' = "done"
    /\ UNCHANGED <<config, tasks, history, first_error, live, call, caller,
                   ret, fx, session, dbg_caller, dbg_out>>

(***************************************************************************)
(* InteractiveDebugger.debug_and_fix.                                      *)
(***************************************************************************)
\* lines 42-45: the locals at the first pass through the loop head
NewSession(original_code, error, language) ==
    [active |-> TRUE, language |-> language, original_code |-> original_code,
     current_code |-> original_code,
     current_error |-> error, fixed_code |-> SrcEmpty,
     attempt |-> 0, bound |-> max_retries, execs |-> 0, repairs |-> 0,
     asked |-> NoAsk]

\* mutant: every repair starts again from the original source
FixArgsOriginal(s) == [code |-> s.original_code, error |-> s.current_error]

\* lines 48-51: what analyze_error and fix_code are given
FixArgs(s) == [code |-> s.current_code, error |-> s.current_error]

\* mutant: the loop makes one pass too many
LoopContinuesOffByOne(attempt, bound) == attempt <= bound

\* mutant: the body runs once before the bound is looked at
LoopContinuesAtLeastOnce(attempt, bound) == attempt < bound \/ attempt = 0

\* line 45: `for attempt in range(self.max_retries)` goes on
LoopContinues(attempt, bound) == attempt < bound

\* mutant: the zero-based loop index is reported
AttemptsOnSuccessZeroBased(attempt) == attempt

\* line 62: 'attempts': attempt + 1
AttemptsOnSuccess(attempt) == attempt + 1

\* mutant: the end of the range is not noticed
LoopExhaustedNever(attempt, bound) == FALSE

\* line 45: range(self.max_retries) is exhausted, the loop is left
LoopExhausted(attempt, bound) == attempt >= bound

\* a loop variable that does not advance
NextAttemptSame(attempt) == attempt

\* line 45: the next value of `attempt`
NextAttempt(attempt) == attempt + 1

\* lines 107-110: the executor method _test_code calls
TestMethod(language) ==
    IF language = "python" THEN "execute_python" ELSE "execute"

\* mutant: the exception's text is not kept
TestResultLosesText(r) ==
    IF r.kind = "raise"
    THEN [success |-> FALSE, error |-> Err("unknown", ""), exit_code |-> -1]
    ELSE r.value

\* lines 112-114: what _test_code makes of the executor's answer
TestResult(r) ==
    IF r.kind = "raise"
    THEN [success |-> FALSE, error |-> r.exc, exit_code |-> -1]
    ELSE r.value

\* line 69: test_result.get('error', ...)
ErrorOf(result) ==
    IF "error" \in DOMAIN result THEN result.error ELSE Err("unknown", "")

\* lines 45-55: analysis and repair are asked of the code producer, and the
\* repaired source is handed to the executor
DebugIterate ==
    /\ pc = "dbg"
    /\ LoopContinues(session.attempt, session.bound)
    /\ \E fixed_code \in WorkflowSources :
           /\ session' = [session EXCEPT
                              !.asked = FixArgs(session),
                              !.fixed_code = fixed_code,
                              !.repairs = @ + 1,
                              !.execs = @ + 1]
           /\ call' = ExecuteCall(TestMethod(session.language),
                                  session.language, fixed_code, "")
    /\ caller' = "dbg"
    /\ pc' = "execute"
    /\ UNCHANGED <<config, tasks, history, first_error, daytona, live, request,
                   ret, fx, dbg_caller, dbg_out, response>>

\* lines 57-65: the repaired source ran successfully
TestCodeSucceeded ==
    /\ pc = "ret"
    /\ caller = "dbg"
    /\ TestResult(ret).success
    /\ dbg_out' = [success |-> TRUE,
                   fixed_code |-> session.fixed_code,
                   attempts |-> AttemptsOnSuccess(session.attempt),
                   execution_result |-> TestResult(ret)]
    /\ pc' = "dbg_ret"
    /\ ret' = None
    /\ fx' = NoFx
    /\ UNCHANGED <<config, tasks, history, first_error, daytona, live, request,
                   call, caller, session, dbg_caller, response>>

\* lines 66-70: it failed; its source and error are the next iteration's
TestCodeFailed ==
    /\ pc = "ret"
    /\ caller = "dbg"
    /\ ~TestResult(ret).success
    /\ session' = [session EXCEPT
                       !.asked = NoAsk,
                       !.current_code = session.fixed_code,
                       !.current_error = ErrorOf(TestResult(ret)),
                       !.attempt = NextAttempt(@)]
    /\ pc' = "dbg"
    /\ Consumed
    /\ UNCHANGED <<config, tasks, history, first_error, daytona, live, request,
                   dbg_caller, dbg_out, response>>

\* lines 72-79: the range is exhausted
DebugExhausted ==
    /\ pc = "dbg"
    /\ LoopExhausted(session.attempt, session.bound)
    /\ dbg_out' = [success |-> FALSE,
                   error |-> Err("exhausted", ""),
                   attempts |-> max_retries,
                   original_code |-> session.original_code,
                   last_error |-> session.current_error]
    /\ pc' = "dbg_ret"
    /\ UNCHANGED <<config, tasks, history, first_error, daytona, live, request,
                   call, caller, ret, fx, session, dbg_caller, response>>

\* lines 261-268
SetMaxRetries ==
    /\ pc = "idle"
    /\ \E n \in (-1)..MaxRetriesBound : max_retries' = n
    /\ UNCHANGED <<tasks, history, first_error, execution_mode, use_docker,
                   daytona, live, pc, request, call, caller, ret, fx, session,
                   dbg_caller, dbg_out, response>>

(***************************************************************************)
(* AICodingWorkflow: after the executor call and after debug_and_fix.      *)
(***************************************************************************)
\* the executor call raised: nothing in the workflow catches it
HandlerRaised ==
    /\ pc = "ret"
    /\ caller \in {"wf_exec", "wf_debug"}
    /\ ret.kind = "raise"
    /\ response' = [kind |-> "raised", exc |-> ret.exc]
    /\ pc' = "done"
    /\ Consumed
    /\ UNCHANGED <<config, tasks, history, first_error, daytona, live, request,
                   session, dbg_caller, dbg_out>>

\* workflow.py lines 215-222 and 259-264
HandlerSucceeded ==
    /\ pc = "ret"
    /\ caller \in {"wf_exec", "wf_debug"}
    /\ ret.kind = "result"
    /\ ret.value.success
    /\ response' =
           IF caller = "wf_debug"
           THEN Response([action |-> "debug", success |-> TRUE])
           ELSE IF {"output", "exit_code"} \subseteq DOMAIN ret.value
           THEN Response([action |-> "execute_code", success |-> TRUE,
                          code |-> request.code,
                          output |-> ret.value.output,
                          exit_code |-> ret.value.exit_code])
           ELSE [kind |-> "raised", exc |-> Err("KeyError", "result")]
    /\ pc' = "done"
    /\ Consumed
    /\ UNCHANGED <<config, tasks, history, first_error, daytona, live, request,
                   session, dbg_caller, dbg_out>>

\* workflow.py lines 223-227 and 266-269: debug_and_fix is entered with the
\* request's code and the failed result's error
HandlerStartsDebug ==
    /\ pc = "ret"
    /\ caller \in {"wf_exec", "wf_debug"}
    /\ ret.kind = "result"
    /\ ~ret.value.success
    /\ session' = NewSession(request.code, ret.value.error, request.language)
    /\ dbg_caller' = caller
    /\ first_error' = IF caller = "wf_exec"
                      THEN ret.value.error ELSE Err("none", "")
    /\ pc' = "dbg"
    /\ Consumed
    /\ UNCHANGED <<config, tasks, history, daytona, live, request, dbg_out,
                   response>>

\* workflow.py lines 229-239 and 271
DebugReturns ==
    /\ pc = "dbg_ret"
    /\ response' =
           IF dbg_caller = "wf_debug"
           THEN Response(dbg_out)
           ELSE Response(
                  [action |-> "execute_code",
                   success |-> dbg_out.success,
                   code |-> IF "fixed_code" \in DOMAIN dbg_out
                            THEN dbg_out.fixed_code ELSE request.code,
                   output |-> IF "execution_result" \in DOMAIN dbg_out
                                 /\ "output" \in DOMAIN dbg_out.execution_result
                              THEN dbg_out.execution_result.output ELSE "",
                   error |-> first_error,
                   fixed |-> dbg_out.success,
                   attempts |-> dbg_out.attempts])
    /\ pc' = "done"
    /\ Consumed
    /\ UNCHANGED <<config, tasks, history, first_error, daytona, live, request,
                   session, dbg_caller, dbg_out>>

\* the request is over; its locals are gone
Finish ==
    /\ pc = "done"
    /\ pc' = "idle"
    /\ request' = None
    /\ response' = None
    /\ session' = NoSession
    /\ dbg_caller' = "none"
    /\ dbg_out' = None
    /\ first_error' = Err("none", "")
    /\ Consumed
    /\ UNCHANGED <<config, tasks, history, daytona, live>>

Next ==
    \/ SetMaxRetries
    \/ ApiExecute
    \/ ApiReturn
    \/ SanitizeCode
    \/ HandleExecuteCodeRefused
    \/ HandleExecuteCode
    \/ HandleDebugNoCode
    \/ HandleDebug
    \/ DeleteWorkspace
    \/ Execute
    \/ HandlerRaised
    \/ HandlerSucceeded
    \/ HandlerStartsDebug
    \/ DebugIterate
    \/ TestCodeSucceeded
    \/ TestCodeFailed
    \/ DebugExhausted
    \/ DebugReturns
    \/ Finish

Spec == Init /\ [][Next]_vars


(***************************************************************************)
(* The awaited calls return and the event loop resumes the task: the       *)
(* executor call, the code producer's calls and the steps after them are   *)
(* taken when they can be.                                                 *)
(***************************************************************************)
FairSpec ==
    /\ Spec
    /\ WF_vars(Execute)
    /\ WF_vars(DebugIterate)
    /\ WF_vars(TestCodeSucceeded \/ TestCodeFailed)
    /\ WF_vars(DebugExhausted)

(***************************************************************************)
(* What the program does by itself is done when it can be: execute enters  *)
(* its backend and its timers fire.  Nothing is assumed of the processes,  *)
(* the container runtime and the remote service.                           *)
(***************************************************************************)
TimerSpec == Spec /\ WF_vars(ExecuteStep)

(***************************************************************************)
(* Two execute calls in flight at the same time on one executor in remote  *)
(* mode (MultiLanguageExecutor.execute lines 131-142 awaiting              *)
(* DaytonaExecutor.execute_code).  Each call is a task of the event loop   *)
(* and is suspended at its awaits; self.workspace_id is the executor's.    *)
(***************************************************************************)
\* everything but the executor's remote state and the calls in flight
sequential ==
    <<config, history, first_error, live, pc, request, call, caller, ret, fx,
      session, dbg_caller, dbg_out, response>>

ConcLanguages == {"python", "c"}

InFlight(t) == tasks[t].pc \in {"create", "exec"}

\* the id the service gives the workspace that call t asks for
NewId(t) == t

\* daytona_executor.py lines 96-107: the call reads self.workspace_id; with
\* no id it sends the create request, else the execute request
ConcEnter(t) ==
    /\ tasks[t].pc = "idle"
    /\ \E language \in ConcLanguages :
         tasks' =
           [u \in Tasks |->
              IF u = t
              THEN [pc |-> IF NeedsWorkspace(daytona.workspace_id)
                           THEN "create" ELSE "exec",
                    language |-> language,
                    target |-> daytona.workspace_id,
                    created |-> NeedsWorkspace(daytona.workspace_id),
                    overlap |-> \E v \in Tasks \ {t} : InFlight(v),
                    result |-> None]
              ELSE [tasks[u] EXCEPT !.overlap = @ \/ InFlight(u)]]
    /\ UNCHANGED <<daytona, sequential>>

\* lines 102-107: create_workspace returns the id; it becomes the call's
\* target and is stored in self.workspace_id; the execute request is sent
ConcCreated(t) ==
    /\ tasks[t].pc = "create"
    /\ tasks' = [tasks EXCEPT ![t].target = NewId(t), ![t].pc = "exec"]
    /\ daytona' = [daytona EXCEPT !.workspace_id = NewId(t)]
    /\ UNCHANGED sequential

\* create_workspace lines 59-60 and 74-76: it raises
ConcCreateFails(t) ==
    /\ tasks[t].pc = "create"
    /\ tasks' = [tasks EXCEPT ![t].pc = "done",
                              ![t].result = Raise("Exception", "status")]
    /\ UNCHANGED <<daytona, sequential>>

\* lines 114-164 and multi_language_executor.py 140-142: the execute
\* request is answered
ConcAnswered(t) ==
    /\ tasks[t].pc = "exec"
    /\ \E reply \in Replies :
         tasks' = [tasks EXCEPT
                      ![t].pc = "done",
                      ![t].result = Result(WithLanguage(RemoteResult(reply),
                                                        tasks[t].language))]
    /\ UNCHANGED <<daytona, sequential>>

ConcInit ==
    /\ Init
    /\ execution_mode = "daytona"
    /\ daytona.api_key

ConcNext ==
    \/ \E t \in Tasks : ConcEnter(t)
    \/ \E t \in Tasks : ConcCreated(t)
    \/ \E t \in Tasks : ConcCreateFails(t)
    \/ \E t \in Tasks : ConcAnswered(t)

ConcSpec == ConcInit /\ [][ConcNext]_vars

(***************************************************************************)
(* The conversation history over many requests.  A handle_request call is  *)
(* followed here from outside: it returns a response, having recorded the  *)
(* request (workflow.py line 103), or an exception of its handler leaves   *)
(* it before that line.  The n-th call carries the user input n.           *)
(***************************************************************************)
\* how many handle_request calls are followed
MaxRequests == 52

\* the handlers raise only in the first calls that many
RaiseWindow == 2

\* workflow.py line 317
HistoryLimit == 50

\* everything but the history and what the caller of handle_request got
handling ==
    <<config, tasks, first_error, daytona, live, pc, request, call, caller,
      ret, fx, session, dbg_caller, dbg_out>>

\* line 100: what _handle_generate returns
Generate == [action |-> "generate", success |-> TRUE]

\* mutant: the oldest entries are the ones kept
UpdateKeepsOldest(h, user_input, assistant) ==
    LET appended == Append(h, [user |-> user_input, assistant |-> assistant])
    IN  IF Len(appended) > HistoryLimit
        THEN SubSeq(appended, 1, HistoryLimit)
        ELSE appended

\* lines 309-318: append, then keep the last 50
_update_conversation_history(h, user_input, assistant) ==
    LET appended == Append(h, [user |-> user_input, assistant |-> assistant])
    IN  IF Len(appended) > HistoryLimit
        THEN SubSeq(appended, Len(appended) - HistoryLimit + 1,
                    Len(appended))
        ELSE appended

\* lines 66-105: the handler returned a response
HandleRequestReturns ==
    /\ arrivals < MaxRequests
    /\ arrivals' = arrivals + 1
    /\ response' = Response(Generate)
    /\ conversation_history' =
           _update_conversation_history(conversation_history, arrivals + 1,
                                        response'.value)
    /\ UNCHANGED handling

\* lines 86-100: the handler raised (the executor's exception passes through
\* _handle_execute_code and _handle_debug), line 103 is not reached
HandleRequestRaises ==
    /\ arrivals < MaxRequests
    /\ arrivals < RaiseWindow
    /\ arrivals' = arrivals + 1
    /\ response' = [kind |-> "raised",
                    exc |-> Err("DockerException", "from_env")]
    /\ UNCHANGED <<conversation_history, handling>>

\* lines 324-326
ClearHistory ==
    /\ conversation_history' = << >>
    /\ UNCHANGED <<arrivals, response, handling>>

HistoryInit ==
    /\ Init
    /\ execution_mode = "auto"
    /\ use_docker

HistoryNext ==
    \/ HandleRequestReturns
    \/ HandleRequestRaises
    \/ ClearHistory

HistorySpec == HistoryInit /\ [][HistoryNext]_vars

(***************************************************************************)
(* Properties.                                                             *)
(***************************************************************************)
\* the ceiling a configured max_retries stands for: range(n) is empty for
\* n <= 0
Ceiling(n) == IF n < 0 THEN 0 ELSE n

Returned == pc = "dbg_ret"

\* C1 (retry ceiling): a debug_and_fix call never makes more executions nor
\* more repair requests than max_retries (none at all when max_retries is
\* not positive); when it returns without success every pass of the loop
\* has been made and failed, success is false and attempts == max_retries.
C1_RetryCeiling ==
    session.active =>
        /\ session.execs <= Ceiling(max_retries)
        /\ session.repairs <= Ceiling(max_retries)
        /\ (Returned /\ ~dbg_out.success) =>
               /\ dbg_out.attempts = max_retries
               /\ session.execs = Ceiling(max_retries)

C1_Witness ==
    /\ Returned
    /\ ~dbg_out.success
    /\ max_retries = DefaultMaxRetries
    /\ session.execs = DefaultMaxRetries
    /\ dbg_out.attempts = DefaultMaxRetries

InDebug == session.active /\ pc \in {"dbg", "execute", "ret"}

\* C2 (termination): every debug_and_fix call that is under way returns,
\* with success or with its retries exhausted.
C2_DebugTerminates == InDebug ~> Returned

\* the producer's last answer is the unchanged original source and the
\* retries are exhausted
C2_Witness ==
    /\ Returned
    /\ ~dbg_out.success
    /\ session.execs = DefaultMaxRetries
    /\ session.fixed_code = session.original_code
    /\ session.current_code = session.original_code

\* C3 (repair convergence): when the executor reports success for the
\* repaired source of iteration k, debug_and_fix returns success with
\* attempts == k and that source as fixed_code, having made exactly k repair
\* requests and k executions (so attempts == 1 when the first repair works).
C3_RepairConvergence ==
    (Returned /\ dbg_out.success) =>
        /\ dbg_out.attempts = session.execs
        /\ dbg_out.attempts = session.repairs
        /\ dbg_out.fixed_code = call.code
        /\ dbg_out.execution_result.success

C3_Witness ==
    /\ Returned
    /\ dbg_out.success
    /\ dbg_out.attempts = 1
    /\ session.execs = 1
    /\ dbg_out.fixed_code # session.original_code

\* execute(language, code, stdin) has returned to the one awaiting it
ExecuteReturned == pc = "ret" /\ call.method = "execute"

Unsafe(code, language) == ~sanitize_code(code, language).safe

\* C4 (security short-circuit): on the workflow's paths (generate and
\* execute, debugging of supplied code, every repair iteration) execute is
\* never invoked on a source the gate finds unsafe.
C4_GateBeforeExecute ==
    (pc = "execute" /\ call.method = "execute"
        /\ caller \in {"wf_exec", "wf_debug", "dbg"})
    => ~Unsafe(call.code, call.language)

\* C5 (unsafe repair): once the code producer has returned a repaired source
\* that the gate finds unsafe, debug_and_fix has stopped at that iteration:
\* that source is not executed, and the outcome is a failure that is not the
\* exhausted-retries one.
C5_UnsafeRepairStops ==
    (session.active /\ session.repairs > 0
        /\ Unsafe(session.fixed_code, session.language))
    => /\ pc \in {"dbg_ret", "done"}
       /\ session.execs < session.repairs
       /\ ~dbg_out.success
       /\ dbg_out.error.kind # "exhausted"

\* C6 (unsupported language): a language id whose lower-case form has no
\* registry entry makes execute return, in every mode, a failed result whose
\* error names that id, with no backend entered, no temporary directory and
\* no remote request.
C6_UnsupportedLanguage ==
    (ExecuteReturned /\ LowerLang(call.language) \notin SUPPORTED_LANGUAGES)
    => /\ ret.kind = "result"
       /\ ~ret.value.success
       /\ ret.value.error = Err("unsupported", LowerLang(call.language))
       /\ fx = NoFx

C6_Witness ==
    /\ ExecuteReturned
    /\ call.language = "COBOL"
    /\ execution_mode = "daytona"
    /\ daytona.api_key
    /\ ret.kind = "result"
    /\ ret.value.error.kind = "unsupported"

\* C7 (explicit modes): in docker mode only the container backend is used,
\* and with the availability flag false the call returns a failed
\* configuration-error result with nothing touched; in local mode no
\* container and no remote request is made; in daytona mode no container and
\* no local process is started.
C7_ExplicitModeNoFallback ==
    ExecuteReturned =>
        /\ execution_mode = "docker" =>
               /\ fx.backend \in {"none", "docker"}
               /\ ~fx.run /\ ~fx.compile /\ ~fx.create_req /\ ~fx.exec_req
               /\ (~use_docker
                     /\ LowerLang(call.language) \in SUPPORTED_LANGUAGES) =>
                      /\ ret.kind = "result"
                      /\ ~ret.value.success
                      /\ ret.value.error.kind = "config"
                      /\ fx = NoFx
        /\ execution_mode = "local" =>
               /\ fx.backend \in {"none", "local"}
               /\ ~fx.docker /\ ~fx.create_req /\ ~fx.exec_req
        /\ execution_mode = "daytona" =>
               /\ fx.backend \in {"none", "daytona"}
               /\ ~fx.docker /\ ~fx.run /\ ~fx.compile /\ ~fx.tmpdir

C7_Witness ==
    /\ ExecuteReturned
    /\ execution_mode = "docker"
    /\ ~use_docker
    /\ call.language = "bash"
    /\ ret.kind = "result"
    /\ ret.value.error.kind = "config"

\* the mode is none of the three named ones (line 156: else)
AutoMode == execution_mode \notin {"daytona", "docker", "local"}

\* C8 (auto mode): for a registered language auto mode enters the container
\* backend when the availability flag is true and the local backend when it
\* is false, and makes no remote request.
C8_AutoModeSelection ==
    (ExecuteReturned /\ AutoMode
        /\ LowerLang(call.language) \in SUPPORTED_LANGUAGES)
    => /\ fx.backend = (IF use_docker THEN "docker" ELSE "local")
       /\ use_docker => (~fx.run /\ ~fx.compile)
       /\ ~use_docker => ~fx.docker
       /\ ~fx.create_req /\ ~fx.exec_req

C8_Witness ==
    /\ ExecuteReturned
    /\ execution_mode = "auto"
    /\ use_docker
    /\ fx.docker

\* C9 (missing credentials): in daytona mode with no API key execute returns
\* a failed configuration-error result, not an exception, and sends no
\* request to the service.
C9_MissingKeyResult ==
    (ExecuteReturned /\ execution_mode = "daytona" /\ ~daytona.api_key
        /\ LowerLang(call.language) \in SUPPORTED_LANGUAGES)
    => /\ ret.kind = "result"
       /\ ~ret.value.success
       /\ ret.value.error.kind = "config"
       /\ ~fx.create_req /\ ~fx.exec_req

\* the remote service's answer is a failure: the workspace could not be
\* created, the request failed or timed out, the body is no JSON, the status
\* is not 200, the body carries an error payload or lacks "success"
FailedReply(reply) ==
    \/ reply.t \in {"create_failed", "client_error", "timeout", "malformed"}
    \/ /\ reply.t = "http"
       /\ \/ reply.status # 200
          \/ "error" \in reply.body.keys
          \/ "success" \notin reply.body.keys

\* C10 (remote failure mapping): in daytona mode every failed answer of the
\* service makes execute return a result with success false and an error
\* text; none escapes as an exception.
C10_RemoteFailureMapped ==
    (ExecuteReturned /\ execution_mode = "daytona" /\ daytona.api_key
        /\ FailedReply(fx.reply))
    => /\ ret.kind = "result"
       /\ ~ret.value.success
       /\ ret.value.error.kind \notin {"none", "stderr"}

\* C11 (run-step timeout): under the local backend kill() is called only on
\* the run-step process, the killed process is reaped before execute goes
\* on, and execute then returns a failed result with the timeout error (not
\* an exception); a run step that is under way always ends with execute
\* returning, also when the program never terminates by itself.
C11_RunStepTimeout ==
    /\ [][(live'.proc = "killed" /\ live.proc # "killed")
             => live.proc = "run"]_vars
    /\ [][(live.proc = "killed" /\ live'.proc # "killed")
             => /\ pc' = "ret"
                /\ live'.proc = "none"
                /\ ret'.kind = "result"
                /\ ~ret'.value.success
                /\ ret'.value.error = Err("timeout", "run")]_vars
    /\ (InExecute /\ live.proc \in {"run", "killed"}) ~> (pc = "ret")

C11_Witness ==
    /\ ExecuteReturned
    /\ fx.backend = "local"
    /\ fx.run
    /\ live.proc = "none"
    /\ ret.kind = "result"
    /\ ret.value.error = Err("timeout", "run")

\* C12 (every wait has a timeout): whatever the compiler, the container and
\* the remote service do, an execute call that is under way returns.
C12_EveryWaitTimesOut == InExecute ~> (pc = "ret")

\* C13 (cleanup before return): when execute returns under the local or the
\* container backend, on every path, the temporary directory of the call is
\* gone and no process or container of the call is left.
C13_CleanBeforeReturn ==
    (ExecuteReturned /\ fx.backend \in {"local", "docker"})
    => /\ ~live.tmpdir
       /\ live.proc = "none"
       /\ ~live.container

\* a compile error under the local backend: the directory existed, and is
\* gone
C13_Witness ==
    /\ ExecuteReturned
    /\ fx.backend = "local"
    /\ fx.tmpdir
    /\ fx.compile
    /\ ret.kind = "result"
    /\ ret.value.error.kind = "compile"
    /\ live = NoLive

\* C14 (request-scoped isolation): when an execute call has returned, no
\* directory, container or remote workspace of the call is left, and the call
\* did not run in a workspace that an earlier call created.
C14_RequestScoped ==
    ExecuteReturned
    => /\ live = NoLive
       /\ daytona.workspace_id = 0
       /\ fx.exec_req => fx.create_req

\* delete_workspace has just returned True after the service answered 200
Deleted ==
    /\ request'.action = "delete_workspace"
    /\ response'.value.deleted
    /\ response'.value.sent

\* C15 (lazy workspace reuse), as the code has it: create-workspace is sent
\* only by an execute call made while no workspace id is held; an id that is
\* held stays the same until delete_workspace succeeds, and an execute call
\* that sent no create request ran in the id that was held.
C15_LazyReuse ==
    /\ [][(fx'.create_req /\ ~fx.create_req)
             => daytona.workspace_id = 0]_vars
    /\ [][daytona.workspace_id # 0
             => \/ daytona'.workspace_id = daytona.workspace_id
                \/ Deleted /\ daytona'.workspace_id = 0]_vars
    /\ []((ExecuteReturned /\ fx.exec_req /\ ~fx.create_req)
             => daytona.workspace_id # 0)

\* a second call has run in the workspace the first call created
C15_Witness ==
    /\ ExecuteReturned
    /\ fx.exec_req
    /\ ~fx.create_req
    /\ daytona.workspace_id = 1
    /\ ret.kind = "result"
    /\ ret.value.success

\* C15 as stated: between two teardowns at most one create-workspace request
\* is sent.
C15_OneCreateBetweenTeardowns == ~fx.recreate

\* the compile step of this call has ended with a non-zero exit code
CompileErrorSeen == fx.compile_exit \in CompileErrorExits

\* C16 (compile failure is terminal): under the local backend, once the
\* compiler has exited non-zero the run step is never started for the call,
\* and execute returns a failed result with the diagnostics and the
\* compiler's exit code.
C16_CompileFailureTerminal ==
    /\ CompileErrorSeen => ~fx.run /\ live = NoLive /\ ~InExecute
    /\ (ExecuteReturned /\ CompileErrorSeen)
       => /\ ret.kind = "result"
          /\ ~ret.value.success
          /\ ret.value.error = Err("compile", "diagnostics")
          /\ ret.value.exit_code = fx.compile_exit

C16_Witness ==
    /\ ExecuteReturned
    /\ fx.backend = "local"
    /\ Language = "c"
    /\ fx.compile_exit = 4
    /\ ret.value.exit_code = 4
    /\ ~fx.run

\* C17 (exhaustion outcome): the outcome of a debug_and_fix call that used up
\* its attempts carries the original source, the last attempted source
\* ("last_code"), the last error and the history of the attempts
\* ("history").
C17_ExhaustionOutcome ==
    (Returned /\ ~dbg_out.success)
    => /\ {"original_code", "last_code", "last_error", "history"}
              \subseteq DOMAIN dbg_out
       /\ dbg_out.original_code = session.original_code
       /\ dbg_out.last_error = session.current_error

\* the fields of an ExecutionResult
ResultFields == {"success", "output", "error", "exit_code", "language"}

\* C18 (result shape): every result execute returns has all of the fields
\* success, output, error, exit_code and language.
C18_ResultShape ==
    (ExecuteReturned /\ ret.kind = "result")
    => ResultFields \subseteq DOMAIN ret.value

\* a verdict has been handed out
VerdictGiven == pc = "done" /\ request.action = "sanitize_code"

\* _handle_execute_code has refused the generated code
Refused ==
    /\ pc = "done"
    /\ request.action = "execute_code"
    /\ response.kind = "response"
    /\ ~response.value.success
    /\ response.value.error = Err("security", "")

\* C19 (security verdict): a verdict is safe exactly when its set of
\* violations is empty, whatever warnings it carries, and the code a
\* workflow request refuses to execute always has a violation.
C19_SecurityVerdict ==
    /\ VerdictGiven
       => /\ response.value.safe <=> response.value.issues = {}
          /\ response.value.issues = Issues(request.code, request.language)
    /\ Refused => Issues(request.code, request.language) # {}

C19_Witness ==
    /\ VerdictGiven
    /\ request.code = SrcSecret
    /\ response.value.warnings = <<"sensitive", "ip">>
    /\ response.value.safe

\* the workflow's execute_code request has called the executor
GateExecutes == caller = "wf_exec" /\ pc \in {"execute", "ret"}

\* C20 (original source is executed): the code _handle_execute_code hands
\* to the executor is the code the gate checked, unmodified, and the gate
\* found it safe; code the gate finds unsafe is refused and no executor call
\* is made for it.
C20_OriginalSourceExecuted ==
    /\ GateExecutes
       => /\ call.code = request.code
          /\ Issues(request.code, request.language) = {}
    /\ (pc = "done" /\ request.action = "execute_code"
           /\ Issues(request.code, request.language) # {})
       => /\ Refused
          /\ response.value.code = request.code
          /\ call = None
          /\ fx = NoFx

C20_Witness ==
    /\ GateExecutes
    /\ ExecuteReturned
    /\ call.code = SrcSecret
    /\ fx.backend = "local"
    /\ fx.run
    /\ ret.kind = "result"
    /\ ret.value.success

\* the two cases of the letters the texts of the model are written with
CasePairs ==
    {<<"r", "R">>, <<"m", "M">>, <<"f", "F">>, <<"d", "D">>, <<"e", "E">>,
     <<"l", "L">>}

SameLetter(a, b) == a = b \/ <<a, b>> \in CasePairs \/ <<b, a>> \in CasePairs

\* the command string occurs in the text, in any letter case
OccursAnyCase(cmd, text) ==
    \E i \in 1..(Len(text) - Len(cmd) + 1) :
        \A j \in 1..Len(cmd) : SameLetter(cmd[j], text[i + j - 1])

\* C21 (command blacklist): whatever the language id, the verdict on a
\* source that contains a blacklisted command string in any letter case is
\* safe = false and names that command.
C21_CommandBlacklist ==
    VerdictGiven
    => \A cmd \in BLACKLISTED_COMMANDS :
           OccursAnyCase(cmd, request.code)
           => /\ ~response.value.safe
              /\ [kind |-> "command", what |-> cmd] \in response.value.issues

C21_Witness ==
    /\ VerdictGiven
    /\ request.code = SrcRmUp
    /\ request.language = "COBOL"
    /\ ~response.value.safe
    /\ response.value.issues =
           {[kind |-> "command", what |-> <<"r", "m", " ", "-", "r", "f">>]}

\* the error of a result execute returns for an unknown language id or an
\* unavailable backend
ConfigurationError(error) ==
    /\ "kind" \in DOMAIN error
    /\ error.kind \in {"unsupported", "config"}

\* C22 (a configuration error is never retried): no repair loop is started
\* for a request whose execution failed with a configuration error.
C22_ConfigErrorNotRetried ==
    (session.active /\ session.repairs = 0)
    => ~ConfigurationError(session.current_error)

\* the execution of a repaired source is awaited or has just returned
TestOutstanding == caller = "dbg" /\ pc \in {"execute", "ret"}

\* C23 (sequential iterations): in a debug_and_fix call every repair request
\* has exactly one execution, the results of all but at most one of them are
\* known, and a repair request is issued only when no execution is
\* outstanding and nothing of an earlier execution is left alive.
C23_SequentialIterations ==
    session.active
    => /\ session.execs = session.repairs
       /\ session.repairs \in {session.attempt, session.attempt + 1}
       /\ (TestOutstanding => session.repairs = session.attempt + 1)
       /\ pc = "dbg"
          => /\ session.repairs = session.attempt
             /\ call = None /\ ret = None
             /\ live.proc = "none" /\ live.request = "none"
             /\ ~live.container

C23_Witness ==
    /\ session.active
    /\ TestOutstanding
    /\ pc = "execute"
    /\ live.proc = "run"
    /\ session.attempt = 1
    /\ session.repairs = 2

\* C24 (independence of concurrent calls): a call that was in flight
\* together with another call on the same executor does what it does alone
\* on that executor: it asks for a workspace and runs in the workspace it
\* asked for, never in one that the other call stored in the executor.
C24_IndependentCalls ==
    \A t \in Tasks :
        (tasks[t].overlap /\ tasks[t].pc \in {"exec", "done"}
            /\ tasks[t].result.kind # "raise")
        => /\ tasks[t].created
           /\ tasks[t].target = NewId(t)

\* an execute call has chosen the container backend or the local one
BackendChosen == fx.backend \in {"docker", "local"}

\* C25 (probe once): no step changes the availability flag computed at
\* construction, and every decision of auto mode and of container mode
\* follows that flag: the container backend is entered exactly when the
\* flag is set, also when the runtime has gone since (the client cannot be
\* made), and container mode with the flag unset returns the
\* configuration error.
C25_ProbeOnce ==
    /\ [][use_docker' = use_docker]_vars
    /\ []((execution_mode \in {"auto", "docker"} /\ BackendChosen)
             => (fx.backend = "docker" <=> use_docker))
    /\ []((ExecuteReturned /\ Supported /\ execution_mode = "docker"
              /\ ~use_docker)
             => /\ ret.kind = "result"
                /\ ret.value.error = Err("config", "docker_unavailable"))

C25_Witness ==
    /\ ExecuteReturned
    /\ execution_mode = "auto"
    /\ use_docker
    /\ fx.backend = "docker"
    /\ ret = Raise("DockerException", "from_env")

\* C26 (no execution failure is raised): an execute call that entered the
\* container backend returns a result, whatever fault the runtime had.
C26_ContainerFaultsReturned ==
    (ExecuteReturned /\ fx.backend = "docker") => ret.kind = "result"

\* C27 (container exit code): when the container ended with a non-zero exit
\* code, the result is a failure whose exit code is that code.
C27_ContainerExitCode ==
    (ExecuteReturned /\ fx.backend = "docker" /\ fx.container_exit > 0)
    => /\ ret.kind = "result"
       /\ ~ret.value.success
       /\ ret.value.exit_code = fx.container_exit

\* str.encode('utf-8') of a text of code points below 65536
RECURSIVE Encode(_)
Encode(text) ==
    IF text = << >> THEN << >>
    ELSE (IF text[1] < 128 THEN <<text[1]>>
          ELSE IF text[1] < 2048
          THEN <<192 + (text[1] \div 64), 128 + (text[1] % 64)>>
          ELSE <<224 + (text[1] \div 4096), 128 + ((text[1] \div 64) % 64),
                 128 + (text[1] % 64)>>)
         \o Encode(Tail(text))

\* the texts a program of the model prints: nothing, "oé", "err"
PrintedTexts == {<< >>, <<111, 233>>, <<101, 114, 114>>}

\* the run step of a local execute call ended before the timeout
RunEnded ==
    ExecuteReturned /\ fx.backend = "local" /\ fx.run_outcome.t = "exit"

\* C28 (result fidelity of the local backend): when the run step ends
\* before the timeout with exit code c, the result has exit code c and
\* success exactly when c = 0; its output and error are the UTF-8 decodings
\* of what the process wrote, each byte that cannot be decoded replaced by
\* U+FFFD, so a text the process printed in UTF-8 is returned exactly.
C28_LocalResultFidelity ==
    RunEnded
    => /\ ret.kind = "result"
       /\ ret.value.exit_code = fx.run_outcome.code
       /\ ret.value.success <=> fx.run_outcome.code = 0
       /\ ret.value.output = Decode(fx.run_outcome.stdout)
       /\ ret.value.error.detail = Decode(fx.run_outcome.stderr)
       /\ \A t \in PrintedTexts :
             /\ fx.run_outcome.stdout = Encode(t) => ret.value.output = t
             /\ fx.run_outcome.stderr = Encode(t)
                => ret.value.error.detail = t

C28_Witness ==
    /\ RunEnded
    /\ fx.run_outcome =
           [t |-> "exit", code |-> 0, stdout |-> <<111, 195, 169>>,
            stderr |-> << >>]
    /\ ret.value.success
    /\ ret.value.output = <<111, 233>>

\* C28 as stated: the output and the error of the result are what the
\* process wrote to its standard output and standard error.
C28_OutputIsStdout ==
    RunEnded
    => /\ Encode(ret.value.output) = fx.run_outcome.stdout
       /\ Encode(ret.value.error.detail) = fx.run_outcome.stderr

\* C29 (runtime failure): a run that exits with a non-zero code or writes
\* to standard error is reported as a failed result.
C29_RuntimeFailure ==
    (RunEnded /\ (fx.run_outcome.code # 0 \/ fx.run_outcome.stderr # << >>))
    => ~ret.value.success

\* C30 (repairs are re-run through execute): the call a repair iteration
\* makes on the executor is execute, with the repaired source, the language
\* id of the session and empty stdin, whatever the language.
C30_RepairRunsExecute ==
    TestOutstanding
    => /\ call.method = "execute"
       /\ call.code = session.fixed_code
       /\ call.language = session.language
       /\ call.stdin = ""

\* a step that starts a debug_and_fix call
SessionStarts == ~session.active /\ session'.active

\* a step in which an iteration of the loop is found to have failed
IterationFails ==
    session.active /\ session'.active /\ session'.attempt # session.attempt

\* C31 (state propagation in the repair loop): debug_and_fix starts from the
\* original source and the initial error; a repair request is given the
\* current source and the current error, which are the original source and
\* the initial error in the first iteration and, after a failed iteration,
\* the source repaired in it and the error of its execution; the original
\* source never changes.
C31_StatePropagation ==
    /\ [][SessionStarts
            => /\ session'.original_code = request.code
               /\ session'.current_code = request.code
               /\ session'.current_error = ret.value.error]_vars
    /\ [][IterationFails
            => /\ session'.current_code = session.fixed_code
               /\ session'.current_error = ErrorOf(TestResult(ret))
               /\ ErrorOf(TestResult(ret)) =
                      (IF ret.kind = "raise" THEN ret.exc
                       ELSE ret.value.error)]_vars
    /\ [][(session.active /\ session'.active)
            => session'.original_code = session.original_code]_vars
    /\ [](TestOutstanding
            => /\ session.asked.code = session.current_code
               /\ session.asked.error = session.current_error
               /\ (session.attempt = 0
                     => session.asked.code = session.original_code))

C31_Witness ==
    /\ TestOutstanding
    /\ session.attempt = 1
    /\ session.original_code = SrcOk
    /\ session.asked.code = SrcRm
    /\ session.asked.error = Err("timeout", "run")

\* the remote service answered 200 with success = true, an output, an
\* empty error field and exit code 0
RemoteSuccessBody ==
    /\ fx.reply.t = "http"
    /\ fx.reply.status = 200
    /\ fx.reply.body.keys = {"success", "output", "error", "exit_code"}
    /\ fx.reply.body.success
    /\ fx.reply.body.error = NoErrorValue
    /\ fx.reply.body.exit_code = 0

\* C32 (remote success pass-through): such an answer is returned as a
\* success with the output and the exit code of the body.
C32_RemoteSuccessPassThrough ==
    (ExecuteReturned /\ RemoteSuccessBody)
    => /\ ret.kind = "result"
       /\ ret.value.success
       /\ ret.value.output = fx.reply.body.output
       /\ ret.value.exit_code = fx.reply.body.exit_code

\* the ids of the workspaces the calls have created
CreatedWorkspaces ==
    {NewId(t) : t \in {u \in Tasks : tasks[u].created
                                       /\ tasks[u].target = NewId(u)}}

\* C33 (concurrent first use of the remote backend): of the calls that
\* overlap on an executor holding no workspace id at most one creates a
\* workspace, and every workspace created is the one the executor holds.
C33_OneWorkspaceOnFirstUse ==
    /\ Cardinality(CreatedWorkspaces) <= 1
    /\ \A id \in CreatedWorkspaces : daytona.workspace_id = id

\* a step that is a whole delete_workspace call
DeleteStep ==
    pc = "idle" /\ request' # None /\ request'.action = "delete_workspace"

\* the deletion was asked of the service and answered 200, and its target
\* was the workspace the executor holds
OwnDeleted ==
    /\ Deleted
    /\ DeleteTarget(request'.workspace_id, daytona.workspace_id)
           = daytona.workspace_id

\* C34 (delete_workspace effects): a successful deletion of the executor's
\* own workspace clears the stored id, and an execute request is then sent
\* only after a create request; every other deletion (failed, without
\* credentials, of another workspace) leaves the stored id unchanged;
\* without credentials it returns false without a request, and with
\* credentials and no stored or given id it returns true without a request.
C34_DeleteWorkspaceEffects ==
    /\ [][DeleteStep
            => /\ OwnDeleted => daytona'.workspace_id = 0
               /\ ~OwnDeleted
                  => daytona'.workspace_id = daytona.workspace_id
               /\ ~daytona.api_key
                  => ~response'.value.deleted /\ ~response'.value.sent
               /\ (daytona.api_key
                     /\ DeleteTarget(request'.workspace_id,
                                     daytona.workspace_id) = 0)
                  => response'.value.deleted /\ ~response'.value.sent]_vars
    /\ []((InExecute /\ fx.exec_req /\ ~fx.create_req)
             => daytona.workspace_id # 0)

\* a delete_workspace call has returned
DeleteDone == pc = "done" /\ request.action = "delete_workspace"

C34_Witness ==
    /\ DeleteDone
    /\ request.workspace_id = 2
    /\ response.value.deleted
    /\ response.value.sent
    /\ daytona.workspace_id = 1

\* C34 as stated: with no stored and no given id delete_workspace returns
\* true without sending a request.
C34_NoIdReturnsTrue ==
    (DeleteDone /\ request.workspace_id = 0 /\ daytona.workspace_id = 0
        /\ ~response.value.sent)
    => response.value.deleted

\* the executor call made by _test_code has raised
TestRaised == pc = "ret" /\ caller = "dbg" /\ ret.kind = "raise"

\* C35 (executor exception in a repair iteration): the exception becomes a
\* failed result whose error is the exception's text, the iteration counts
\* as one attempt, the text is the current error of the next iteration, and
\* debug_and_fix returns a result instead of raising.
C35_ExecutorExceptionConverted ==
    /\ [](TestRaised
            => /\ ~TestResult(ret).success
               /\ TestResult(ret).error = ret.exc
               /\ TestResult(ret).exit_code = -1)
    /\ [][TestRaised
            => /\ pc' = "dbg"
               /\ session'.active
               /\ session'.attempt = session.attempt + 1
               /\ session'.execs = session.execs
               /\ session'.current_error = ret.exc]_vars
    /\ []((session.active /\ pc \in {"dbg_ret", "done"})
            => /\ "success" \in DOMAIN dbg_out
               /\ "attempts" \in DOMAIN dbg_out
               /\ (pc = "done" => response.kind = "response"))

C35_Witness ==
    /\ TestOutstanding
    /\ session.attempt = 1
    /\ session.current_error.kind = "DockerException"
    /\ session.asked.error = session.current_error

\* the mode given at construction is none of the four documented names
UnknownMode == execution_mode \notin {"auto", "docker", "local", "daytona"}

\* C36 (unknown mode): the stored mode is the lower-cased argument, and a
\* mode that is none of docker, local and daytona, "auto" or not, chooses
\* the backend from the availability flag alone; under such a mode the
\* remote executor is never constructed and no remote request is made.
C36_UnknownModeIsAuto ==
    /\ execution_mode = LowerMode(execution_mode)
    /\ AutoMode
       => /\ ~daytona.present
          /\ daytona.workspace_id = 0
          /\ ~fx.create_req /\ ~fx.exec_req
          /\ live.request = "none"
    /\ ((InExecute \/ ExecuteReturned) /\ AutoMode /\ fx.backend # "none")
       => fx.backend = (IF use_docker THEN "docker" ELSE "local")
    /\ (ExecuteReturned /\ AutoMode /\ Supported)
       => fx.backend \in {"docker", "local"}

C36_Witness ==
    /\ ExecuteReturned
    /\ UnknownMode
    /\ use_docker
    /\ fx.docker
    /\ ret.kind = "result"
    /\ ret.value.success

\* lines 153-165: the local backend is the one the mode and the flag select
LocalSelected == execution_mode = "local" \/ (AutoMode /\ ~use_docker)

\* the registered languages for which lines 248-274 name no runner
NoLocalRunner == {"java", "go", "rust", "cpp"}

\* C37 (no local runner): with the local backend selected, execute of java,
\* go, rust or cpp returns the failed local-mode-unsupported result, and at
\* no point of the call is there a compile or run process, a container or a
\* remote request.
C37_LocalUnsupported ==
    /\ \A language \in SUPPORTED_LANGUAGES :
           language \in NoLocalRunner
               <=> LocalRunner(language) = "unsupported"
    /\ ((InExecute \/ ExecuteReturned) /\ LocalSelected
           /\ Language \in NoLocalRunner)
       => /\ ~fx.compile /\ ~fx.run /\ ~fx.docker
          /\ ~fx.create_req /\ ~fx.exec_req
          /\ live.proc = NoLive.proc
          /\ live.container = NoLive.container
    /\ (ExecuteReturned /\ LocalSelected /\ Language \in NoLocalRunner)
       => /\ ret = Result([success |-> FALSE,
                           error |-> Err("local_unsupported", Language),
                           exit_code |-> -1, language |-> Language])
          /\ fx.backend = "local"

C37_Witness ==
    /\ ExecuteReturned
    /\ AutoMode
    /\ ~use_docker
    /\ Language = "java"
    /\ ret.kind = "result"
    /\ ret.value.error = Err("local_unsupported", "java")

\* set_max_retries has stored a value for which range() is empty
NoRetries == max_retries <= 0

\* C38 (no retries configured): with max_retries zero or negative a
\* debug_and_fix call asks for no repair and runs nothing, keeps the error
\* it was given, and returns success false with attempts equal to the
\* configured value, the original source and that error as the last error.
C38_NoRetriesConfigured ==
    /\ []((session.active /\ NoRetries)
            => /\ session.repairs = 0
               /\ session.execs = 0
               /\ session.attempt = 0
               /\ session.asked = NoAsk
               /\ session.current_code = session.original_code
               /\ ~TestOutstanding)
    /\ [][(SessionStarts /\ NoRetries)
            => session'.current_error = ret.value.error]_vars
    /\ [][(session.active /\ session'.active /\ NoRetries)
            => session'.current_error = session.current_error]_vars
    /\ []((session.active /\ Returned /\ NoRetries)
            => /\ dbg_out = [success |-> FALSE,
                             error |-> Err("exhausted", ""),
                             attempts |-> max_retries,
                             original_code |-> session.original_code,
                             last_error |-> session.current_error]
               /\ (dbg_caller = "wf_exec"
                     => dbg_out.last_error = first_error))

C38_Witness ==
    /\ session.active
    /\ Returned
    /\ max_retries = -1
    /\ dbg_out.attempts = -1
    /\ dbg_caller = "wf_exec"
    /\ dbg_out.last_error = Err("timeout", "run")

\* the user inputs recorded in the history, oldest first
Recorded ==
    [i \in 1..Len(conversation_history) |-> conversation_history[i].user]

\* a handle_request call has returned a response in this step
RequestReturned == arrivals' = arrivals + 1 /\ response'.kind = "response"

\* a handle_request call has raised in this step
RequestRaised == arrivals' = arrivals + 1 /\ response'.kind = "raised"

\* how many old entries a recording step keeps
Kept == IF Len(conversation_history) < HistoryLimit
        THEN Len(conversation_history) ELSE HistoryLimit - 1

====
